---- MODULE Spec2Model ----
(***************************************************************************)
(* Hostel management: the room-capacity and allocation-consistency         *)
(* subsystem.  The database (rooms, students, allocations, with their      *)
(* CHECK constraints, the partial unique index and the allocation          *)
(* triggers of database/seed.sql) and the three route handlers that write  *)
(* it: POST /api/allocations (assign), DELETE /api/allocations/[id]        *)
(* (checkout) and DELETE /api/students/[id] (student deactivation).        *)
(*                                                                         *)
(* And the complaint lifecycle: the complaints and complaint_logs tables   *)
(* with the two logging triggers, written by POST /api/complaints and      *)
(* PUT /api/complaints/[id].  Spec runs the allocation requests,           *)
(* SpecComplaints the complaint requests.                                  *)
(*                                                                         *)
(* Every `await query(...)` of a handler is one step: lib/db.ts query()    *)
(* runs each statement through pool.query, i.e. in its own implicit        *)
(* transaction, so the statement (with the triggers it fires) commits      *)
(* before the handler continues, and requests interleave between           *)
(* statements.                                                             *)
(***************************************************************************)
EXTENDS Integers, Sequences, FiniteSets, TLC

VARIABLES
    student_active,     \* students.is_active, per student id
    current_occupancy,  \* rooms.current_occupancy, per room id
    allocations,        \* the allocations table: row id = index
    req,                \* the request each server slot is handling: its position
                        \* (pc), its inputs and locals, and a record of what it
                        \* has written (deactivated, inserted), whether any other
                        \* request overlapped it (alone) and the database it
                        \* started from (pre)
    hist,               \* completed requests, in order of response
    started,            \* number of requests started so far
    seed,               \* which seed data the database was loaded with
    complaints,         \* the complaints table: row id = index
    complaint_logs,     \* the complaint_logs table, in insertion order
    now,                \* CURRENT_TIMESTAMP of the next UPDATE of a complaint
    creq,               \* the complaint or payment request each server slot is
                        \* handling
    cstarted,           \* number of complaint or payment requests started so far
    payments,           \* the payments table, rows created this year: row id = index
    analytics           \* the rooms and complaints tables an analytics request
                        \* reads, and the response it gave

\* The complaint tables and the requests on them.
cvars == <<complaints, complaint_logs, now, creq, cstarted>>

\* The room, student and allocation tables and the requests on them.
avars == <<student_active, current_occupancy, allocations, req, hist, started, seed>>

\* What neither the assign, checkout and student requests nor the complaint
\* requests write.
xvars == <<payments, analytics>>

vars == <<avars, cvars, xvars>>

dbvars == <<student_active, current_occupancy, allocations>>

\* ------------------------------------------------------------------ bounds

\* Total number of requests issued in one behaviour.
MaxRequests == 2

\* ------------------------------------------------------------------ data

Students == {1, 2, 3}
Rooms == {1, 2, 3}
Procs == {1, 2}

\* The ids an assign request may name: those of the rows, and one that no row
\* has.
StudentIds == Students \cup {4}
RoomIds == Rooms \cup {4}

\* students.gender (gender_type)
gender == (1 :> "male") @@ (2 :> "male") @@ (3 :> "other")

\* rooms.capacity: CHECK (capacity > 0 AND capacity <= 10)
capacity == (1 :> 2) @@ (2 :> 2) @@ (3 :> 2)

\* hostels.gender_allowed of the room's hostel
gender_allowed == (1 :> "male") @@ (2 :> "male") @@ (3 :> "other")

\* rooms.is_available
is_available == (1 :> TRUE) @@ (2 :> FALSE) @@ (3 :> TRUE)

\* GREATEST(a, b)
\* The decrement without its floor: the second argument, whatever the first.
GREATEST_unfloored(a, b) == b

GREATEST(a, b) == IF a >= b THEN a ELSE b

Min(a, b) == IF a <= b THEN a ELSE b

\* ------------------------------------------------------------------ schema

\* rooms: CHECK (current_occupancy >= 0)
check_nonnegative(occ, r) == occ[r] >= 0

\* check_occupancy written off by one: one occupant beyond capacity passes.
check_occupancy_off_by_one(occ, r) == occ[r] <= capacity[r] + 1

\* rooms: CONSTRAINT check_occupancy CHECK (current_occupancy <= capacity)
check_occupancy(occ, r) == occ[r] <= capacity[r]

\* The index created on (student_id, room_id): a student may then be active in
\* two different rooms.
idx_one_active_allocation_per_room(allocs) ==
    \A i, j \in DOMAIN allocs :
        (i # j /\ allocs[i].is_active /\ allocs[j].is_active)
            => \/ allocs[i].student_id # allocs[j].student_id
               \/ allocs[i].room_id # allocs[j].room_id

\* CREATE UNIQUE INDEX idx_one_active_allocation ON allocations(student_id)
\* WHERE is_active = TRUE
idx_one_active_allocation(allocs) ==
    \A i, j \in DOMAIN allocs :
        (i # j /\ allocs[i].is_active /\ allocs[j].is_active)
            => allocs[i].student_id # allocs[j].student_id

\* An UPDATE of one rooms row: the new row must pass both CHECK constraints.
RoomRowOk(occ, r) == check_nonnegative(occ, r) /\ check_occupancy(occ, r)

\* Rows of `allocs` that are active for student s.
ActiveOf(allocs, s) ==
    {i \in DOMAIN allocs : allocs[i].student_id = s /\ allocs[i].is_active}

\* Rows of `allocs` that are active in room r.
ActiveIn(allocs, r) ==
    {i \in DOMAIN allocs : allocs[i].room_id = r /\ allocs[i].is_active}

\* ------------------------------------------------------------------ triggers

\* The UPDATE of the allocation rows with the trigger's decrement left out.
DeactivateRows_without_release(occ, allocs, S) ==
    [ allocs |->
        [i \in DOMAIN allocs |->
            IF i \in S THEN [allocs[i] EXCEPT !.is_active = FALSE] ELSE allocs[i]],
      occ |-> occ ]

\* check_room_capacity, UPDATE branch with OLD.is_active = TRUE and
\* NEW.is_active = FALSE, fired once per row: n rows of one room.
RECURSIVE releaseSlot(_, _)
releaseSlot(occ_r, n) ==
    IF n = 0 THEN occ_r ELSE releaseSlot(GREATEST(0, occ_r - 1), n - 1)

\* UPDATE allocations SET is_active = FALSE ... for the rows in S, with the
\* BEFORE UPDATE trigger check_room_capacity fired for each row.
DeactivateRows(occ, allocs, S) ==
    [ allocs |->
        [i \in DOMAIN allocs |->
            IF i \in S THEN [allocs[i] EXCEPT !.is_active = FALSE] ELSE allocs[i]],
      occ |->
        [r \in Rooms |->
            releaseSlot(occ[r],
                Cardinality({i \in S : allocs[i].is_active /\ allocs[i].room_id = r}))] ]

\* INSERT INTO allocations (..., is_active) VALUES (..., TRUE) with the BEFORE
\* INSERT trigger check_room_capacity.  v_occ is what the trigger's SELECT read.
\* Gives the error raised, or "" and the new tables.
InsertAllocation(occ, allocs, s, r, v_occ) ==
    LET occ1 == [occ EXCEPT ![r] = @ + 1]
        allocs1 == Append(allocs, [student_id |-> s, room_id |-> r, is_active |-> TRUE])
    IN  IF v_occ >= capacity[r]
        THEN [error |-> "room_full_exception", occ |-> occ, allocs |-> allocs]
        ELSE IF ~RoomRowOk(occ1, r)
        THEN [error |-> "check_violation", occ |-> occ, allocs |-> allocs]
        ELSE IF ~idx_one_active_allocation(allocs1)
        THEN [error |-> "unique_violation", occ |-> occ, allocs |-> allocs]
        ELSE [error |-> "", occ |-> occ1, allocs |-> allocs1]

\* ------------------------------------------------------------------ seed data

\* The seed inserts rooms with current_occupancy 0 and then the allocations,
\* through the triggers.  Each seed is a list of (student, room) inserts.
Seeds ==
    { <<>>,
      <<[s |-> 1, r |-> 1]>>,
      <<[s |-> 1, r |-> 1], [s |-> 2, r |-> 1]>> }

RECURSIVE LoadSeed(_, _, _)
LoadSeed(occ, allocs, rows) ==
    IF rows = <<>> THEN [occ |-> occ, allocs |-> allocs]
    ELSE LET ins == InsertAllocation(occ, allocs, Head(rows).s, Head(rows).r,
                                     occ[Head(rows).r])
         IN  LoadSeed(ins.occ, ins.allocs, Tail(rows))

Seeded(sd) == LoadSeed([r \in Rooms |-> 0], <<>>, sd)

\* ------------------------------------------------------------------ requests

Snapshot == [occ |-> current_occupancy, allocs |-> allocations, active |-> student_active]

Idle ==
    [ pc |-> "idle", kind |-> "none", student_id |-> 0, room_id |-> 0,
      allocation_id |-> 0, existing |-> 0, v_occ |-> 0, result |-> "",
      deactivated |-> {}, inserted |-> 0, alone |-> TRUE, pre |-> <<>> ]

NewRequest(p, k, s, r, a, first) ==
    [ Idle EXCEPT !.pc = first, !.kind = k, !.student_id = s, !.room_id = r,
                  !.allocation_id = a,
                  !.alone = \A q \in Procs \ {p} : req[q].pc = "idle",
                  !.pre = Snapshot ]

\* A request arrives on slot p; a request already running on another slot is
\* no longer running alone.
Begin(p, r0) ==
    /\ req[p].pc = "idle"
    /\ started < MaxRequests
    /\ started' = started + 1
    /\ req' = [q \in Procs |->
                IF q = p THEN r0
                ELSE IF req[q].pc = "idle" THEN req[q]
                ELSE [req[q] EXCEPT !.alone = FALSE]]
    /\ UNCHANGED <<dbvars, hist, seed, cvars, xvars>>

Goto(p, next) == req' = [req EXCEPT ![p].pc = next]

Return(p, res) == req' = [req EXCEPT ![p].pc = "done", ![p].result = res]

\* The response leaves the server.
Respond(p) ==
    /\ req[p].pc = "done"
    /\ hist' = Append(hist,
            [ kind |-> req[p].kind, student_id |-> req[p].student_id,
              room_id |-> req[p].room_id, allocation_id |-> req[p].allocation_id,
              result |-> req[p].result, alone |-> req[p].alone ])
    /\ req' = [req EXCEPT ![p] = Idle]
    /\ UNCHANGED <<dbvars, started, seed, cvars, xvars>>

\* ------------------------------------------------------------------ POST /api/allocations

\* The student query without its is_active condition.
StudentFound_any_status(s) == s \in Students

\* SELECT id, gender FROM students WHERE id = $1 AND is_active = TRUE: a row
\* came back.
StudentFound(s) == s \in Students /\ student_active[s]

\* SELECT ... FROM rooms r JOIN hostels h ON r.hostel_id = h.id
\* WHERE r.id = $1 AND r.is_available = TRUE: a row came back.
RoomFound(r) == r \in Rooms /\ is_available[r]

\* The gender check with a student of gender 'other' let into every hostel.
GenderRejected_other_student_passes(s, r) ==
    /\ gender_allowed[r] # "other"
    /\ gender[s] # "other"
    /\ gender[s] # gender_allowed[r]

\* if (room.gender_allowed !== 'other' && student.gender !== room.gender_allowed)
GenderRejected(s, r) ==
    gender_allowed[r] # "other" /\ gender[s] # gender_allowed[r]

\* { student_id, room_id } of the request body. The handler returns on an
\* unknown student before it reads room_id, and on an unknown room whatever
\* the student found, so one request stands for each of the two.
AssignBodies ==
    { b \in StudentIds \X RoomIds :
        (b[1] \in Students /\ b[2] \in Rooms) \/ b = <<4, 1>> \/ b = <<1, 4>> }

AssignStart(p) ==
    \E b \in AssignBodies :
        Begin(p, NewRequest(p, "assign", b[1], b[2], 0, "studentCheck"))

\* SELECT id, gender FROM students WHERE id = $1 AND is_active = TRUE
AssignStudentCheck(p) ==
    /\ req[p].pc = "studentCheck"
    /\ IF ~StudentFound(req[p].student_id)
       THEN Return(p, "StudentNotActive")
       ELSE Goto(p, "roomCheck")
    /\ UNCHANGED <<dbvars, hist, started, seed, cvars, xvars>>

\* SELECT ... FROM rooms r JOIN hostels h ... WHERE r.id = $1 AND
\* r.is_available = TRUE, then the capacity and gender checks on the row read.
AssignRoomCheck(p) ==
    LET r == req[p].room_id
        s == req[p].student_id
    IN  /\ req[p].pc = "roomCheck"
        /\ IF ~RoomFound(r)
           THEN Return(p, "RoomNotAvailable")
           ELSE IF current_occupancy[r] >= capacity[r]
           THEN Return(p, "RoomFull")
           ELSE IF GenderRejected(s, r)
           THEN Return(p, "GenderMismatch")
           ELSE Goto(p, "existingAllocation")
        /\ UNCHANGED <<dbvars, hist, started, seed, cvars, xvars>>

\* SELECT id FROM allocations WHERE student_id = $1 AND is_active = TRUE
AssignExistingAllocation(p) ==
    LET n == Cardinality(ActiveOf(allocations, req[p].student_id))
    IN  /\ req[p].pc = "existingAllocation"
        /\ req' = [req EXCEPT ![p].existing = n,
                              ![p].pc = IF n > 0 THEN "deactivate" ELSE "insert"]
        /\ UNCHANGED <<dbvars, hist, started, seed, cvars, xvars>>

\* UPDATE allocations SET is_active = FALSE, actual_checkout = CURRENT_DATE
\* WHERE student_id = $1 AND is_active = TRUE
AssignDeactivate(p) ==
    LET upd == DeactivateRows(current_occupancy, allocations,
                              ActiveOf(allocations, req[p].student_id))
    IN  /\ req[p].pc = "deactivate"
        /\ allocations' = upd.allocs
        /\ current_occupancy' = upd.occ
        /\ req' = [req EXCEPT ![p].pc = "insert",
                              ![p].deactivated = ActiveOf(allocations, req[p].student_id)]
        /\ UNCHANGED <<student_active, hist, started, seed, cvars, xvars>>

\* INSERT INTO allocations: the trigger's SELECT of the room row.
AssignInsertTriggerSelect(p) ==
    /\ req[p].pc = "insert"
    /\ req' = [req EXCEPT ![p].v_occ = current_occupancy[req[p].room_id],
                          ![p].pc = "insertWrite"]
    /\ UNCHANGED <<dbvars, hist, started, seed, cvars, xvars>>

\* INSERT INTO allocations: the trigger's check and UPDATE rooms, the row and
\* index insert, and the commit of the statement.  An error rolls the statement
\* back and is caught by the handler's catch (500).
AssignInsert(p) ==
    LET ins == InsertAllocation(current_occupancy, allocations,
                                req[p].student_id, req[p].room_id, req[p].v_occ)
    IN  /\ req[p].pc = "insertWrite"
        /\ allocations' = ins.allocs
        /\ current_occupancy' = ins.occ
        /\ IF ins.error # ""
           THEN Return(p, ins.error)
           ELSE req' = [req EXCEPT ![p].pc = "roomUpdate",
                                   ![p].inserted = Len(ins.allocs)]
        /\ UNCHANGED <<student_active, hist, started, seed, cvars, xvars>>

\* UPDATE rooms SET current_occupancy = current_occupancy + 1 WHERE id = $1
AssignRoomUpdate(p) ==
    LET r == req[p].room_id
        occ1 == [current_occupancy EXCEPT ![r] = @ + 1]
    IN  /\ req[p].pc = "roomUpdate"
        /\ IF RoomRowOk(occ1, r)
           THEN current_occupancy' = occ1 /\ Return(p, "Created")
           ELSE current_occupancy' = current_occupancy /\ Return(p, "check_violation")
        /\ UNCHANGED <<student_active, allocations, hist, started, seed, cvars, xvars>>

\* ------------------------------------------------------------------ DELETE /api/allocations/[id]

CheckoutStart(p) ==
    \E a \in 1..(Len(allocations) + 1) :
        Begin(p, NewRequest(p, "checkout", 0, 0, a, "checkoutSelect"))

\* SELECT * FROM allocations WHERE id = $1, and the two early returns.
CheckoutSelect(p) ==
    LET a == req[p].allocation_id
    IN  /\ req[p].pc = "checkoutSelect"
        /\ IF a \notin DOMAIN allocations
           THEN Return(p, "AllocationNotFound")
           ELSE IF ~allocations[a].is_active
           THEN Return(p, "AlreadyInactive")
           ELSE req' = [req EXCEPT ![p].room_id = allocations[a].room_id,
                                   ![p].pc = "checkoutUpdate"]
        /\ UNCHANGED <<dbvars, hist, started, seed, cvars, xvars>>

\* UPDATE allocations SET is_active = FALSE, actual_checkout = CURRENT_DATE
\* WHERE id = $1
CheckoutUpdate(p) ==
    LET upd == DeactivateRows(current_occupancy, allocations,
                              {req[p].allocation_id} \cap DOMAIN allocations)
    IN  /\ req[p].pc = "checkoutUpdate"
        /\ allocations' = upd.allocs
        /\ current_occupancy' = upd.occ
        /\ Goto(p, "checkoutRoomUpdate")
        /\ UNCHANGED <<student_active, hist, started, seed, cvars, xvars>>

\* UPDATE rooms SET current_occupancy = GREATEST(0, current_occupancy - 1)
\* WHERE id = existing.room_id
CheckoutRoomUpdate(p) ==
    /\ req[p].pc = "checkoutRoomUpdate"
    /\ current_occupancy' =
            [current_occupancy EXCEPT ![req[p].room_id] = GREATEST(0, @ - 1)]
    /\ Return(p, "Ok")
    /\ UNCHANGED <<student_active, allocations, hist, started, seed, cvars, xvars>>

\* ------------------------------------------------------------------ DELETE /api/students/[id]

StudentDeleteStart(p) ==
    \E s \in Students :
        Begin(p, NewRequest(p, "studentDelete", s, 0, 0, "studentUpdate"))

\* UPDATE students SET is_active = FALSE WHERE id = $1 RETURNING *
\* (the request names a student that exists, so the 404 return is not taken)
StudentDeleteUpdate(p) ==
    /\ req[p].pc = "studentUpdate"
    /\ student_active' = [student_active EXCEPT ![req[p].student_id] = FALSE]
    /\ Goto(p, "studentAllocations")
    /\ UNCHANGED <<current_occupancy, allocations, hist, started, seed, cvars, xvars>>

\* UPDATE allocations SET is_active = FALSE, actual_checkout = CURRENT_DATE
\* WHERE student_id = $1 AND is_active = TRUE
StudentDeleteAllocations(p) ==
    LET upd == DeactivateRows(current_occupancy, allocations,
                              ActiveOf(allocations, req[p].student_id))
    IN  /\ req[p].pc = "studentAllocations"
        /\ allocations' = upd.allocs
        /\ current_occupancy' = upd.occ
        /\ Return(p, "Ok")
        /\ UNCHANGED <<student_active, hist, started, seed, cvars, xvars>>

\* ------------------------------------------------------------------ complaints: schema

\* Total number of complaint requests issued in one behaviour.
MaxComplaintRequests == 2

\* A nullable column (a staff id, a timestamp) that holds no value.
NULL == 0

\* complaint_logs.old_status of a creation row: NULL.
NullStatus == "null"

\* maintenance_staff rows, with is_available
Staff == {1, 2}
staff_available == (1 :> TRUE) @@ (2 :> FALSE)

\* complaint_category
validCategories ==
    {"electrical", "plumbing", "furniture", "cleaning",
     "pest_control", "internet", "security", "other"}

\* complaint_status
validStatuses == {"open", "assigned", "in_progress", "resolved", "closed"}

\* complaints.priority: CHECK (priority >= 1 AND priority <= 5)
check_priority(n) == n >= 1 /\ n <= 5

\* The row INSERT INTO complaints (..., priority, status) VALUES (..., 'open')
\* creates: the other columns take their defaults (resolution_notes "" is
\* NULL).
NewComplaint(pr) ==
    [ status |-> "open", priority |-> pr, assigned_staff_id |-> NULL,
      resolution_notes |-> "", assigned_at |-> NULL, resolved_at |-> NULL,
      closed_at |-> NULL ]

\* The creation trigger not created: no row is logged.
log_complaint_creation_missing(logs, id, new) == logs

\* The creation trigger logging the status inserted in both columns.
log_complaint_creation_from_open(logs, id, new) ==
    Append(logs, [complaint_id |-> id, old_status |-> new.status,
                  new_status |-> new.status])

\* log_complaint_creation, AFTER INSERT ON complaints
log_complaint_creation(logs, id, new) ==
    Append(logs, [complaint_id |-> id, old_status |-> NullStatus,
                  new_status |-> new.status])

\* The trigger with its assigned branch only: resolved_at and closed_at are
\* left as they were.
StampStatus_assigned_only(old, new, ts) ==
    IF new.status = "assigned" /\ old.status # "assigned"
    THEN [new EXCEPT !.assigned_at = ts]
    ELSE new

\* The timestamp part of log_complaint_status_change: the column of the status
\* entered is set to CURRENT_TIMESTAMP.
StampStatus(old, new, ts) ==
    IF new.status = "assigned" /\ old.status # "assigned"
    THEN [new EXCEPT !.assigned_at = ts]
    ELSE IF new.status = "resolved" /\ old.status # "resolved"
    THEN [new EXCEPT !.resolved_at = ts]
    ELSE IF new.status = "closed" /\ old.status # "closed"
    THEN [new EXCEPT !.closed_at = ts]
    ELSE new

\* The trigger logging the new status in both columns of the row.
log_complaint_status_change_new_as_old(logs, id, old, new, ts) ==
    IF old.status # new.status
    THEN [ row |-> StampStatus(old, new, ts),
           logs |-> Append(logs, [complaint_id |-> id, old_status |-> new.status,
                                  new_status |-> new.status]) ]
    ELSE [ row |-> new, logs |-> logs ]

\* The trigger without its test that the status changed.
log_complaint_status_change_always(logs, id, old, new, ts) ==
    [ row |-> StampStatus(old, new, ts),
      logs |-> Append(logs, [complaint_id |-> id, old_status |-> old.status,
                             new_status |-> new.status]) ]

\* The trigger keeping one row per complaint: it writes over the last row of
\* the log instead of adding one.
log_complaint_status_change_overwrites(logs, id, old, new, ts) ==
    IF old.status # new.status
    THEN [ row |-> StampStatus(old, new, ts),
           logs |-> [logs EXCEPT ![Len(logs)] =
                        [complaint_id |-> id, old_status |-> old.status,
                         new_status |-> new.status]] ]
    ELSE [ row |-> new, logs |-> logs ]

\* log_complaint_status_change, BEFORE UPDATE ON complaints: the row as it
\* will be written and the log table.
log_complaint_status_change(logs, id, old, new, ts) ==
    IF old.status # new.status
    THEN [ row |-> StampStatus(old, new, ts),
           logs |-> Append(logs, [complaint_id |-> id, old_status |-> old.status,
                                  new_status |-> new.status]) ]
    ELSE [ row |-> new, logs |-> logs ]

\* The seed's complaints table: one complaint, inserted as open or as
\* assigned to staff 1 at time 1.
SeedComplaints ==
    { <<NewComplaint(2)>>,
      <<[NewComplaint(2) EXCEPT !.status = "assigned", !.assigned_staff_id = 1,
                                !.assigned_at = 1]>> }

\* ------------------------------------------------------------------ complaints: requests

\* A field of a request body that may be left out: given says whether the
\* body has it, value is what it holds (NULL for null).
Undefined == [given |-> FALSE, value |-> NULL]
Given(v) == [given |-> TRUE, value |-> v]

\* JavaScript's `field || fallback` on a numeric field: undefined, null and 0
\* all give the fallback.
OrDefault(field, fallback) ==
    IF ~field.given \/ field.value = 0 THEN fallback ELSE field.value

\* Bodies of POST /api/complaints (title and description always present).
CreateBodies ==
    [ student_id : {1, 4}, room_id : {1, 4},
      category : {"", "electrical", "noise"},
      priority : {Undefined, Given(-1), Given(0), Given(1), Given(6)} ]

\* Bodies of PUT /api/complaints/[id]; staff 3 is no row of maintenance_staff,
\* resolution_notes says whether the body has notes (the text "notes").
UpdateBodies ==
    [ status : {"", "bogus"} \cup validStatuses,
      assigned_staff_id : {Undefined, Given(NULL), Given(1), Given(2), Given(3)},
      resolution_notes : BOOLEAN,
      priority : {Undefined, Given(0), Given(5)} ]

\* The bodies of valid fields: a status, a staff member, a priority.
StatusBodies ==
    [ status : {""} \cup validStatuses,
      assigned_staff_id : {Undefined, Given(NULL), Given(1)},
      resolution_notes : {FALSE},
      priority : {Undefined, Given(5)} ]

CIdle ==
    [ pc |-> "idle", kind |-> "none", id |-> 0, body |-> <<>>,
      existing |-> <<>>, result |-> "", pre |-> <<>> ]

\* The complaint tables as a request finds them when it arrives.
CSnapshot == [complaints |-> complaints, logs |-> complaint_logs]

\* A complaint request arrives on a free slot.
CBegin(p) ==
    /\ creq[p].pc = "idle"
    /\ cstarted < MaxComplaintRequests
    /\ cstarted' = cstarted + 1

CRequest(k, id, body) ==
    [CIdle EXCEPT !.kind = k, !.id = id, !.body = body, !.pre = CSnapshot]

\* The request rq of slot p moves on to its next statement, or returns.
CGoto(p, rq, next) == creq' = [creq EXCEPT ![p] = [rq EXCEPT !.pc = next]]

CReturn(p, rq, res) ==
    creq' = [creq EXCEPT ![p] = [rq EXCEPT !.pc = "done", !.result = res]]

\* The response leaves the server.
ComplaintRespond(p) ==
    /\ creq[p].pc = "done"
    /\ creq' = [creq EXCEPT ![p] = CIdle]
    /\ UNCHANGED <<complaints, complaint_logs, now, cstarted, avars, xvars>>

\* ------------------------------------------------------------------ POST /api/complaints

\* const finalPriority = priority || 3
finalPriority(body) == OrDefault(body.priority, 3)

\* The request arrives: the validation of the required fields, the category
\* and the priority, up to the handler's first query.
ComplaintCreateValidate(p) ==
    /\ CBegin(p)
    /\ \E body \in CreateBodies :
          LET rq == CRequest("create", 0, body)
          IN  IF body.category = ""
              THEN CReturn(p, rq, "MissingFields")
              ELSE IF body.category \notin validCategories
              THEN CReturn(p, rq, "InvalidCategory")
              ELSE IF finalPriority(body) < 1 \/ finalPriority(body) > 5
              THEN CReturn(p, rq, "InvalidPriority")
              ELSE CGoto(p, rq, "createStudentCheck")
    /\ UNCHANGED <<complaints, complaint_logs, now, avars, xvars>>

\* SELECT id FROM students WHERE id = $1 AND is_active = TRUE
ComplaintCreateStudentCheck(p) ==
    /\ creq[p].pc = "createStudentCheck"
    /\ IF ~StudentFound(creq[p].body.student_id)
       THEN CReturn(p, creq[p], "StudentNotActive")
       ELSE CGoto(p, creq[p], "createRoomCheck")
    /\ UNCHANGED <<complaints, complaint_logs, now, cstarted, avars, xvars>>

\* SELECT id FROM rooms WHERE id = $1
ComplaintCreateRoomCheck(p) ==
    /\ creq[p].pc = "createRoomCheck"
    /\ IF creq[p].body.room_id \notin Rooms
       THEN CReturn(p, creq[p], "RoomNotFound")
       ELSE CGoto(p, creq[p], "createInsert")
    /\ UNCHANGED <<complaints, complaint_logs, now, cstarted, avars, xvars>>

\* INSERT INTO complaints (...) VALUES (..., $6, 'open') RETURNING *, with the
\* priority CHECK and the AFTER INSERT trigger log_complaint_creation.
ComplaintCreateInsert(p) ==
    LET new == NewComplaint(finalPriority(creq[p].body))
        id == Len(complaints) + 1
    IN  /\ creq[p].pc = "createInsert"
        /\ IF check_priority(new.priority)
           THEN /\ complaints' = Append(complaints, new)
                /\ complaint_logs' = log_complaint_creation(complaint_logs, id, new)
                /\ CReturn(p, [creq[p] EXCEPT !.id = id], "Created")
           ELSE /\ UNCHANGED <<complaints, complaint_logs>>
                /\ CReturn(p, creq[p], "check_violation")
        /\ UNCHANGED <<now, cstarted, avars, xvars>>

\* ------------------------------------------------------------------ PUT /api/complaints/[id]

\* JavaScript truthiness of a numeric field: undefined, null and 0 are falsy.
Truthy(field) == field.given /\ field.value # 0

\* The staff query without its is_available condition.
StaffFound_any_availability(id) == id \in Staff

\* SELECT id FROM maintenance_staff WHERE id = $1 AND is_available = TRUE: a
\* row came back.
StaffFound(id) == id \in Staff /\ staff_available[id]

\* The status the UPDATE sets ("" for none), decided on the row the handler
\* read: the status asked for when it differs from existing.status, or
\* 'assigned' when staff is given for an open complaint and no status asked.
StatusToSet(body, existing) ==
    IF body.status # "" /\ body.status # existing.status
    THEN body.status
    ELSE IF /\ body.assigned_staff_id.given
            /\ Truthy(body.assigned_staff_id)
            /\ existing.status = "open"
            /\ body.status = ""
    THEN "assigned"
    ELSE ""

\* updates.length === 0
NoUpdates(body, existing) ==
    /\ StatusToSet(body, existing) = ""
    /\ ~body.assigned_staff_id.given
    /\ ~body.resolution_notes
    /\ ~body.priority.given

\* The handler after the staff lookup: the priority validation and the test
\* for an empty update list.
AfterStaffCheck(p, rq) ==
    IF rq.body.priority.given /\ (rq.body.priority.value < 1 \/ rq.body.priority.value > 5)
    THEN CReturn(p, rq, "InvalidPriority")
    ELSE IF NoUpdates(rq.body, rq.existing)
    THEN CReturn(p, rq, "NoFields")
    ELSE CGoto(p, rq, "updateWrite")

\* The request arrives: SELECT * FROM complaints WHERE id = $1, the status
\* validation and the test for a status 'assigned' without staff.
ComplaintUpdateSelectOf(p, bodies) ==
    /\ CBegin(p)
    /\ \E id \in 1..(Len(complaints) + 1), body \in bodies :
          IF id \notin DOMAIN complaints
          THEN CReturn(p, CRequest("update", id, body), "ComplaintNotFound")
          ELSE LET existing == complaints[id]
                   rq == [CRequest("update", id, body) EXCEPT !.existing = existing]
               IN  IF body.status # "" /\ body.status \notin validStatuses
                   THEN CReturn(p, rq, "InvalidStatus")
                   ELSE IF /\ body.status # ""
                           /\ body.status # existing.status
                           /\ body.status = "assigned"
                           /\ ~Truthy(body.assigned_staff_id)
                           /\ existing.assigned_staff_id = NULL
                   THEN CReturn(p, rq, "StaffMissing")
                   ELSE IF body.assigned_staff_id.given
                           /\ body.assigned_staff_id.value # NULL
                   THEN CGoto(p, rq, "updateStaffCheck")
                   ELSE AfterStaffCheck(p, rq)
    /\ UNCHANGED <<complaints, complaint_logs, now, avars, xvars>>

\* PUT /api/complaints/[id] with any body.
ComplaintUpdateSelect(p) == ComplaintUpdateSelectOf(p, UpdateBodies)

\* PUT /api/complaints/[id] with a body of valid fields.
ComplaintUpdateSelectStatus(p) == ComplaintUpdateSelectOf(p, StatusBodies)

\* SELECT id FROM maintenance_staff WHERE id = $1 AND is_available = TRUE
ComplaintUpdateStaffCheck(p) ==
    /\ creq[p].pc = "updateStaffCheck"
    /\ IF ~StaffFound(creq[p].body.assigned_staff_id.value)
       THEN CReturn(p, creq[p], "StaffNotAvailable")
       ELSE AfterStaffCheck(p, creq[p])
    /\ UNCHANGED <<complaints, complaint_logs, now, cstarted, avars, xvars>>

\* UPDATE complaints SET ... WHERE id = $n RETURNING *, with the BEFORE UPDATE
\* trigger log_complaint_status_change: OLD is the row as the statement finds
\* it, not the row the handler read.
ComplaintUpdateWrite(p) ==
    LET body == creq[p].body
        id == creq[p].id
        old == complaints[id]
        status == StatusToSet(body, creq[p].existing)
        new == [old EXCEPT
                  !.status = IF status # "" THEN status ELSE @,
                  !.assigned_staff_id =
                      IF body.assigned_staff_id.given
                      THEN body.assigned_staff_id.value ELSE @,
                  !.resolution_notes = IF body.resolution_notes THEN "notes" ELSE @,
                  !.priority = IF body.priority.given THEN body.priority.value ELSE @]
        trg == log_complaint_status_change(complaint_logs, id, old, new, now)
    IN  /\ creq[p].pc = "updateWrite"
        /\ complaints' = [complaints EXCEPT ![id] = trg.row]
        /\ complaint_logs' = trg.logs
        /\ now' = now + 1
        /\ CReturn(p, creq[p], "Updated")
        /\ UNCHANGED <<cstarted, avars, xvars>>

\* ------------------------------------------------------------------ specification

\* ------------------------------------------------------------------ PUT /api/allocations/[id]

\* allocations.allocation_date of the rows of the model, as a day number.
allocation_date == 2

\* CONSTRAINT valid_checkout_dates
\* CHECK (expected_checkout IS NULL OR expected_checkout >= allocation_date)
valid_checkout_dates(expected_checkout) ==
    expected_checkout = NULL \/ expected_checkout >= allocation_date

\* The trigger taking every UPDATE of an active row for an activation.
check_room_capacity_update_counts_active(occ, old, new) ==
    IF new.is_active
    THEN [error |-> "", occ |-> [occ EXCEPT ![new.room_id] = @ + 1]]
    ELSE [error |-> "", occ |-> occ]

\* check_room_capacity, BEFORE UPDATE ON allocations, for one row: the
\* deactivation and the reactivation branch, and no change of occupancy for
\* an UPDATE that leaves is_active as it was.
check_room_capacity_update(occ, old, new) ==
    IF old.is_active /\ ~new.is_active
    THEN [error |-> "",
          occ |-> [occ EXCEPT ![new.room_id] = GREATEST(0, @ - 1)]]
    ELSE IF ~old.is_active /\ new.is_active
    THEN IF occ[new.room_id] >= capacity[new.room_id]
         THEN [error |-> "room_full_exception", occ |-> occ]
         ELSE [error |-> "", occ |-> [occ EXCEPT ![new.room_id] = @ + 1]]
    ELSE [error |-> "", occ |-> occ]

\* { expected_checkout, notes } of the request body: a date before or after
\* the allocation date, null, or left out; notes given or left out.
AllocationUpdateBodies ==
    [ expected_checkout : {Undefined, Given(NULL), Given(allocation_date - 1),
                           Given(allocation_date + 1)},
      notes : BOOLEAN ]

AllocationUpdateStart(p) ==
    \E a \in 1..(Len(allocations) + 1) :
        Begin(p, NewRequest(p, "allocationUpdate", 0, 0, a, "allocationUpdate"))

\* UPDATE allocations SET expected_checkout = $1, notes = $2 WHERE id = $3
\* RETURNING *, with the trigger and the CHECK constraint, after the return
\* for a body with neither field.  The SET list names neither is_active nor
\* room_id, so NEW has them as OLD; the two columns written are not columns
\* of the model's rows.
AllocationUpdateWrite(p) ==
    LET a == req[p].allocation_id
    IN  /\ req[p].pc = "allocationUpdate"
        /\ \E body \in AllocationUpdateBodies :
              IF ~body.expected_checkout.given /\ ~body.notes
              THEN Return(p, "NoFields") /\ UNCHANGED dbvars
              ELSE IF a \notin DOMAIN allocations
              THEN Return(p, "AllocationNotFound") /\ UNCHANGED dbvars
              ELSE LET old == allocations[a]
                       new == old
                       trig == check_room_capacity_update(current_occupancy, old, new)
                   IN  IF trig.error # ""
                       THEN Return(p, trig.error) /\ UNCHANGED dbvars
                       ELSE IF ~valid_checkout_dates(body.expected_checkout.value)
                       THEN Return(p, "check_violation") /\ UNCHANGED dbvars
                       ELSE /\ allocations' = [allocations EXCEPT ![a] = new]
                            /\ current_occupancy' = trig.occ
                            /\ UNCHANGED student_active
                            /\ Return(p, "Updated")
        /\ UNCHANGED <<hist, started, seed, cvars, xvars>>

\* ------------------------------------------------------------------ POST /api/payments

\* Total number of payment requests issued in one behaviour.
MaxPaymentRequests == 2

\* new Date().getFullYear(): every request of a behaviour falls in one year,
\* and the payments table of the model holds the rows created in that year.
year == 2026

\* count.toString().padStart(4, '0')
padStart4(count) ==
    IF count < 10 THEN "000" \o ToString(count)
    ELSE IF count < 100 THEN "00" \o ToString(count)
    ELSE IF count < 1000 THEN "0" \o ToString(count)
    ELSE ToString(count)

\* `RCP-${year}-${count.toString().padStart(4, '0')}`
ReceiptNumber(count) == "RCP-" \o ToString(year) \o "-" \o padStart4(count)

\* The fields of the request body the handler acts on; "" is a string left
\* out, FALSE a date left out.
PaymentBodies ==
    [ student_id : {1, 4}, amount : {-1, 0, 100}, due_date : BOOLEAN,
      payment_date : BOOLEAN, payment_status : {"", "paid", "pending"},
      receipt_number : {"", ReceiptNumber(1)} ]

\* A payment request arrives on a free slot.
PBegin(p) ==
    /\ creq[p].pc = "idle"
    /\ cstarted < MaxPaymentRequests
    /\ cstarted' = cstarted + 1

\* The request arrives; the required fields and the amount are validated.
\* The slot keeps the fields the handler has still to read.
PaymentCreateValidate(p) ==
    /\ PBegin(p)
    /\ \E body \in PaymentBodies :
          LET rq == [CIdle EXCEPT !.kind = "payment"]
          IN  IF body.student_id = 0 \/ body.amount = 0 \/ ~body.due_date
              THEN CReturn(p, rq, "MissingFields")
              ELSE IF body.amount <= 0
              THEN CReturn(p, rq, "InvalidAmount")
              ELSE CGoto(p, [rq EXCEPT !.body =
                                [ student_id |-> body.student_id,
                                  payment_date |-> body.payment_date,
                                  payment_status |-> body.payment_status,
                                  receipt_number |-> body.receipt_number ]],
                         "paymentStudentCheck")
    /\ UNCHANGED <<complaints, complaint_logs, now, avars, xvars>>

\* let finalStatus = payment_status || 'pending';
\* if (payment_date && !payment_status) finalStatus = 'paid'
finalStatus(body) ==
    IF body.payment_date /\ body.payment_status = "" THEN "paid"
    ELSE IF body.payment_status # "" THEN body.payment_status
    ELSE "pending"

\* SELECT id FROM students WHERE id = $1, then the status and the test for a
\* receipt number to generate.
PaymentCreateStudentCheck(p) ==
    LET rq == creq[p]
        row == [ payment_status |-> finalStatus(rq.body),
                 receipt_number |-> rq.body.receipt_number,
                 generated |-> FALSE ]
    IN  /\ rq.pc = "paymentStudentCheck"
        /\ IF rq.body.student_id \notin Students
           THEN CReturn(p, [rq EXCEPT !.body = <<>>], "StudentNotFound")
           ELSE IF row.payment_status = "paid" /\ row.receipt_number = ""
           THEN CGoto(p, [rq EXCEPT !.body = <<>>, !.existing = row], "paymentCount")
           ELSE CGoto(p, [rq EXCEPT !.body = <<>>, !.existing = row], "paymentInsert")
        /\ UNCHANGED <<complaints, complaint_logs, now, cstarted, avars, xvars>>

\* SELECT COUNT(*) FROM payments WHERE EXTRACT(YEAR FROM created_at) = $1,
\* and the receipt number made from it.
PaymentCreateCount(p) ==
    LET rq == creq[p]
        count == Len(payments) + 1
    IN  /\ rq.pc = "paymentCount"
        /\ CGoto(p, [rq EXCEPT !.existing.receipt_number = ReceiptNumber(count),
                               !.existing.generated = TRUE],
                 "paymentInsert")
        /\ UNCHANGED <<complaints, complaint_logs, now, cstarted, avars, xvars>>

\* INSERT INTO payments (...) VALUES (...) RETURNING *
PaymentCreateInsert(p) ==
    LET rq == creq[p]
    IN  /\ rq.pc = "paymentInsert"
        /\ payments' = Append(payments, rq.existing)
        /\ CReturn(p, [rq EXCEPT !.id = Len(payments) + 1, !.existing = <<>>],
                   "Created")
        /\ UNCHANGED <<complaints, complaint_logs, now, cstarted, avars, analytics>>

\* The response leaves the server.
PaymentRespond(p) ==
    /\ creq[p].pc = "done"
    /\ creq[p].kind = "payment"
    /\ creq' = [creq EXCEPT ![p] = CIdle]
    /\ UNCHANGED <<complaints, complaint_logs, now, cstarted, avars, xvars>>

\* ------------------------------------------------------------------ GET /api/analytics/*

\* Largest number of rows in each table the analytics queries read.
MaxStatsRows == 2

\* hostels.id; no room of the tables below belongs to hostel 3.
Hostels == {1, 2, 3}

\* The rooms table as the analytics queries see it: capacity is positive in
\* every row (CHECK (capacity > 0)); one bed in three is taken, a rate that
\* does not round to a whole number.
StatsRoomRows ==
    [ hostel_id : {1, 2}, capacity : {3}, current_occupancy : {1} ]

\* The complaints table as the analytics queries see it, every complaint on a
\* room of the rooms table (fk_complaint_room).
StatsComplaintRows(rooms) ==
    [ room_id : DOMAIN rooms, category : {"electrical", "plumbing"},
      status : {"open", "resolved"} ]

\* Sequences over S of length at most MaxStatsRows.
Tables(S) == UNION { [1..n -> S] : n \in 0..MaxStatsRows }

\* A JavaScript number: a value, or what a division by zero leaves.
JsNumber(v) == [kind |-> "number", value |-> v]
NaN == [kind |-> "NaN", value |-> 0]
Infinity == [kind |-> "Infinity", value |-> 0]

\* Math.round((n / d) * scale) for n, d >= 0: the quotient rounded half up,
\* NaN for 0 / 0 and Infinity for n / 0.
RoundedRatio(n, d, scale) ==
    IF d = 0 THEN (IF n = 0 THEN NaN ELSE Infinity)
    ELSE JsNumber((2 * n * scale + d) \div (2 * d))

RECURSIVE Sum(_)
Sum(numbers) == IF numbers = <<>> THEN 0 ELSE Head(numbers) + Sum(Tail(numbers))

\* WHERE r.hostel_id = $1, when the request names a hostel (0: it names none).
InHostel(rooms, hostel_id) ==
    SelectSeq(rooms, LAMBDA r : hostel_id = 0 \/ r.hostel_id = hostel_id)

\* The rate computed without its test of the capacity.
occupancy_rate_unguarded(occ, cap) == RoundedRatio(occ, cap, 10000)

\* cap > 0 ? Math.round((occ / cap) * 100 * 100) / 100 : 0, in hundredths of
\* a percent.
occupancy_rate(occ, cap) ==
    IF cap > 0 THEN RoundedRatio(occ, cap, 10000) ELSE JsNumber(0)

\* totalComplaints > 0 ? Math.round((n / totalComplaints) * 100) : 0: the
\* category percentage and the resolution rate.
percentage(n, totalComplaints) ==
    IF totalComplaints > 0 THEN RoundedRatio(n, totalComplaints, 100) ELSE JsNumber(0)

\* totalRooms > 0 ? parseFloat((totalComplaints / totalRooms).toFixed(2)) : 0,
\* in hundredths.
complaints_per_room(totalComplaints, totalRooms) ==
    IF totalRooms > 0 THEN RoundedRatio(totalComplaints, totalRooms, 100) ELSE JsNumber(0)

NoResponse == [kind |-> "none", data |-> <<>>]

Respond200(kind, data) ==
    /\ analytics' = [analytics EXCEPT !.response = [kind |-> kind, data |-> data]]
    /\ UNCHANGED <<avars, cvars, payments>>

\* GET /api/analytics/rooms: the totals (COUNT, COALESCE(SUM, 0)) over the
\* rooms of the hostel named, and the rate of each group of the GROUP BY (the
\* rooms of the model are of one type).
AnalyticsRooms ==
    \E hostel_id \in {0} \cup Hostels :
        LET rows == InHostel(analytics.rooms, hostel_id)
            totalCapacity == Sum([i \in DOMAIN rows |-> rows[i].capacity])
            totalOccupancy == Sum([i \in DOMAIN rows |-> rows[i].current_occupancy])
        IN  Respond200("rooms",
                [ total_rooms |-> Len(rows),
                  total_capacity |-> totalCapacity,
                  total_occupancy |-> totalOccupancy,
                  overall_occupancy_rate |-> occupancy_rate(totalOccupancy, totalCapacity),
                  by_type |-> IF rows = <<>> THEN <<>>
                              ELSE <<[ capacity |-> totalCapacity,
                                       rate |-> occupancy_rate(totalOccupancy,
                                                               totalCapacity) ]>> ])

\* The complaints of one category, or resolved.
OfCategory(rows, c) == SelectSeq(rows, LAMBDA r : r.category = c)
Resolved(rows) == SelectSeq(rows, LAMBDA r : r.status \in {"resolved", "closed"})

\* GET /api/analytics/categories: one row for each category that has
\* complaints (GROUP BY category), the total being the sum over the rows.
AnalyticsCategories ==
    LET groups == { analytics.complaints[i].category : i \in DOMAIN analytics.complaints }
        totalComplaints == Len(analytics.complaints)
    IN  Respond200("categories",
            [ c \in groups |->
                [ total_complaints |-> Len(OfCategory(analytics.complaints, c)),
                  percentage |-> percentage(Len(OfCategory(analytics.complaints, c)),
                                            totalComplaints) ] ])

\* The complaints on rooms of hostel h (INNER JOIN rooms ON c.room_id = r.id).
ComplaintsIn(h) ==
    SelectSeq(analytics.complaints,
              LAMBDA c : h = 0 \/ analytics.rooms[c.room_id].hostel_id = h)

\* GET /api/analytics/hostels: one row for each hostel (LEFT JOIN rooms).
AnalyticsHostels ==
    Respond200("hostels",
        [ h \in Hostels |->
            [ total_complaints |-> Len(ComplaintsIn(h)),
              complaints_per_room |->
                  complaints_per_room(Len(ComplaintsIn(h)),
                                      Len(InHostel(analytics.rooms, h))) ] ])

\* GET /api/analytics/resolution: the complaints of the hostel named.
AnalyticsResolution ==
    \E hostel_id \in {0} \cup Hostels :
        LET rows == ComplaintsIn(hostel_id)
        IN  Respond200("resolution",
                [ total_complaints |-> Len(rows),
                  resolved_complaints |-> Len(Resolved(rows)),
                  resolution_rate |-> percentage(Len(Resolved(rows)), Len(rows)) ])

\* ------------------------------------------------------------------ initial state

InitAllocations ==
    /\ seed \in Seeds
    /\ student_active = [s \in Students |-> TRUE]
    /\ current_occupancy = Seeded(seed).occ
    /\ allocations = Seeded(seed).allocs
    /\ req = [p \in Procs |-> Idle]
    /\ hist = <<>>
    /\ started = 0

InitComplaintTables ==
    /\ complaints \in SeedComplaints
    /\ complaint_logs = log_complaint_creation(<<>>, 1, complaints[1])
    /\ now = 2
    /\ creq = [p \in Procs |-> CIdle]
    /\ cstarted = 0

\* The allocation and payment requests never read the complaint tables: they
\* run on a database in which no complaint has been filed.
InitDatabase ==
    /\ InitAllocations
    /\ complaints = <<>>
    /\ complaint_logs = <<>>
    /\ now = 1
    /\ creq = [p \in Procs |-> CIdle]
    /\ cstarted = 0
    /\ payments = <<>>

\* No analytics request is made.
Init == InitDatabase /\ analytics = <<>>

Next ==
    \E p \in Procs :
        \/ AssignStart(p)
        \/ AssignStudentCheck(p)
        \/ AssignRoomCheck(p)
        \/ AssignExistingAllocation(p)
        \/ AssignDeactivate(p)
        \/ AssignInsertTriggerSelect(p)
        \/ AssignInsert(p)
        \/ AssignRoomUpdate(p)
        \/ CheckoutStart(p)
        \/ CheckoutSelect(p)
        \/ CheckoutUpdate(p)
        \/ CheckoutRoomUpdate(p)
        \/ StudentDeleteStart(p)
        \/ StudentDeleteUpdate(p)
        \/ StudentDeleteAllocations(p)
        \/ Respond(p)

Spec == Init /\ [][Next]_vars

\* The complaint requests, on the database of the empty allocation seed.
InitComplaints ==
    /\ InitAllocations
    /\ InitComplaintTables
    /\ seed = <<>>
    /\ payments = <<>>
    /\ analytics = <<>>

NextComplaints ==
    \E p \in {1} :
        \/ ComplaintCreateValidate(p)
        \/ ComplaintCreateStudentCheck(p)
        \/ ComplaintCreateRoomCheck(p)
        \/ ComplaintCreateInsert(p)
        \/ ComplaintUpdateSelect(p)
        \/ ComplaintUpdateStaffCheck(p)
        \/ ComplaintUpdateWrite(p)
        \/ ComplaintRespond(p)

SpecComplaints == InitComplaints /\ [][NextComplaints]_vars

\* Updates arriving on both slots, so that two requests for one complaint
\* overlap.
NextComplaintsConcurrent ==
    \E p \in Procs :
        \/ ComplaintUpdateSelectStatus(p)
        \/ ComplaintUpdateStaffCheck(p)
        \/ ComplaintUpdateWrite(p)
        \/ ComplaintRespond(p)

SpecComplaintsConcurrent == InitComplaints /\ [][NextComplaintsConcurrent]_vars

\* The payment requests, on both slots, on a database with no allocation.
InitPayments == Init /\ seed = <<>>

NextPayments ==
    \E p \in Procs :
        \/ PaymentCreateValidate(p)
        \/ PaymentCreateStudentCheck(p)
        \/ PaymentCreateCount(p)
        \/ PaymentCreateInsert(p)
        \/ PaymentRespond(p)

SpecPayments == InitPayments /\ [][NextPayments]_vars

\* The allocation updates, next to checkouts that deactivate the rows they
\* name.
NextAllocationUpdates ==
    \E p \in Procs :
        \/ AllocationUpdateStart(p)
        \/ AllocationUpdateWrite(p)
        \/ CheckoutStart(p)
        \/ CheckoutSelect(p)
        \/ CheckoutUpdate(p)
        \/ CheckoutRoomUpdate(p)
        \/ Respond(p)

SpecAllocationUpdates == Init /\ [][NextAllocationUpdates]_vars

\* The analytics requests, on every pair of tables within the bound.
InitAnalytics ==
    /\ InitDatabase
    /\ seed = <<>>
    /\ \E rooms \in Tables(StatsRoomRows) :
         \E rows \in Tables(StatsComplaintRows(rooms)) :
            analytics = [rooms |-> rooms, complaints |-> rows, response |-> NoResponse]

NextAnalytics ==
    \/ AnalyticsRooms
    \/ AnalyticsCategories
    \/ AnalyticsHostels
    \/ AnalyticsResolution

SpecAnalytics == InitAnalytics /\ [][NextAnalytics]_vars

\* ------------------------------------------------------------------ properties

\* No request is in progress.
Quiescent == \A p \in Procs : req[p].pc = "idle"

\* The assign request on slot p has returned.
AssignDone(p) == req[p].kind = "assign" /\ req[p].pc = "done"

\* The database as the seed left it.
SeedOcc == Seeded(seed).occ
SeedAllocs == Seeded(seed).allocs

\* In database st, student s may be given room r.
GenderOk(s, r) == gender_allowed[r] = "other" \/ gender[s] = gender_allowed[r]

Eligible(st, s, r) ==
    /\ s \in Students
    /\ r \in Rooms
    /\ st.active[s]
    /\ is_available[r]
    /\ GenderOk(s, r)

\* C1: in every reachable state, under any interleaving of assign, checkout and
\* student-deactivation requests, every room has
\* 0 <= current_occupancy <= capacity.
C1_OccupancyWithinCapacity ==
    \A r \in Rooms : 0 <= current_occupancy[r] /\ current_occupancy[r] <= capacity[r]

\* C1 witness: an assign has filled a room and its further increment was
\* refused by the rooms CHECK constraint, the room standing at its capacity.
C1_Witness ==
    \E p \in Procs :
        /\ AssignDone(p)
        /\ req[p].result = "check_violation"
        /\ current_occupancy[req[p].room_id] = capacity[req[p].room_id]

\* C2: in every reachable state, under any interleaving of requests (two
\* concurrent assigns for one student included), each student has at most one
\* allocation with is_active = TRUE.
C2_AtMostOneActive ==
    \A s \in Students : Cardinality(ActiveOf(allocations, s)) <= 1

\* C2 witness: of two concurrent assigns for one student, one has inserted its
\* row and the other's INSERT was refused by the partial unique index.
C2_Witness ==
    \E p \in Procs :
        /\ AssignDone(p)
        /\ ~req[p].alone
        /\ req[p].result = "unique_violation"
        /\ Cardinality(ActiveOf(allocations, req[p].student_id)) = 1

\* C3: in every state with no request in progress, reached by successful
\* assign, checkout and student-deactivation requests from the seeded
\* (consistent) database, each room's current_occupancy equals the number of
\* its allocations with is_active = TRUE.
C3_OccupancyIsActiveCount ==
    (Quiescent /\ \A i \in DOMAIN hist : hist[i].result \in {"Created", "Ok"})
        => \A r \in Rooms :
              current_occupancy[r] = Cardinality(ActiveIn(allocations, r))

\* C4: an assign by an eligible student (active, gender-compatible, no current
\* allocation) to an available room with current_occupancy < capacity, with no
\* concurrent request, succeeds, creates exactly one active allocation for the
\* student in that room and raises the room's current_occupancy by exactly 1.
C4_AssignSucceeds ==
    \A p \in Procs :
        LET s == req[p].student_id
            r == req[p].room_id
            pre == req[p].pre
        IN  ( /\ AssignDone(p)
              /\ req[p].alone
              /\ Eligible(pre, s, r)
              /\ ActiveOf(pre.allocs, s) = {}
              /\ pre.occ[r] < capacity[r] )
            => /\ req[p].result = "Created"
               /\ allocations =
                    Append(pre.allocs,
                           [student_id |-> s, room_id |-> r, is_active |-> TRUE])
               /\ current_occupancy = [pre.occ EXCEPT ![r] = @ + 1]

\* C5: whenever an assign returns an error, whatever the cause, the database is
\* exactly what it was before the request (stated for a request that no other
\* request overlapped, so that every change is its own).
C5_FailedAssignChangesNothing ==
    \A p \in Procs :
        (AssignDone(p) /\ req[p].alone /\ req[p].result # "Created")
            => Snapshot = req[p].pre

\* C6: while a student who holds an active allocation is being re-assigned, no
\* state another request can observe has that student with zero or with two
\* active allocations (stated for a request that no other request overlapped:
\* every state between two of its statements is committed and observable).
C6_ReassignNotObservable ==
    \A p \in Procs :
        ( /\ req[p].kind = "assign"
          /\ req[p].pc # "idle"
          /\ req[p].alone
          /\ Cardinality(ActiveOf(req[p].pre.allocs, req[p].student_id)) = 1 )
        => Cardinality(ActiveOf(allocations, req[p].student_id)) = 1

\* The requests of hist are N overlapping assigns, by distinct students that the
\* seed left eligible and without allocation, all for room r.
ConcurrentAssignsTo(r) ==
    /\ Len(hist) >= 2
    /\ \A i \in DOMAIN hist :
          /\ hist[i].kind = "assign"
          /\ hist[i].room_id = r
          /\ ~hist[i].alone
          /\ hist[i].student_id \in Students
          /\ GenderOk(hist[i].student_id, r)
          /\ ActiveOf(SeedAllocs, hist[i].student_id) = {}
    /\ \A i, j \in DOMAIN hist : i # j => hist[i].student_id # hist[j].student_id

\* C7: N concurrent assigns by N distinct eligible students for one room with
\* k = capacity - current_occupancy free slots give exactly min(N, k) successes
\* and leave the room's current_occupancy at its initial value plus min(N, k).
C7_ConcurrentAssigns ==
    \A r \in Rooms :
        (Quiescent /\ started = Len(hist) /\ ConcurrentAssignsTo(r))
            => LET m == Min(Len(hist), capacity[r] - SeedOcc[r])
               IN  /\ Cardinality({i \in DOMAIN hist : hist[i].result = "Created"}) = m
                   /\ current_occupancy[r] = SeedOcc[r] + m

\* C8: assign(student, A) followed by assign(student, B), A and B distinct
\* eligible rooms with free slots, leaves the student with exactly one active
\* allocation, in B, room A's current_occupancy at its value before the first
\* assign and room B's exactly 1 above its initial value.
C8_AssignThenReassign ==
    ( /\ Quiescent
      /\ Len(hist) = 2
      /\ \A i \in {1, 2} :
            /\ hist[i].kind = "assign"
            /\ hist[i].alone
            /\ hist[i].result = "Created"
      /\ hist[1].student_id = hist[2].student_id
      /\ hist[1].room_id # hist[2].room_id
      /\ ActiveOf(SeedAllocs, hist[1].student_id) = {} )
    => LET s == hist[1].student_id
           A == hist[1].room_id
           B == hist[2].room_id
       IN  /\ Cardinality(ActiveOf(allocations, s)) = 1
           /\ \A i \in ActiveOf(allocations, s) : allocations[i].room_id = B
           /\ current_occupancy[A] = SeedOcc[A]
           /\ current_occupancy[B] = SeedOcc[B] + 1

\* C9: checkout called twice in sequence on one (active) allocation id succeeds
\* the first time, returns the 'already inactive' error the second time, and
\* over both calls lowers the room's current_occupancy exactly once, by 1.
C9_CheckoutTwice ==
    ( /\ Quiescent
      /\ Len(hist) = 2
      /\ \A i \in {1, 2} : hist[i].kind = "checkout" /\ hist[i].alone
      /\ hist[1].allocation_id = hist[2].allocation_id
      /\ hist[1].allocation_id \in DOMAIN SeedAllocs )
    => LET room == SeedAllocs[hist[1].allocation_id].room_id
       IN  /\ hist[1].result = "Ok"
           /\ hist[2].result = "AlreadyInactive"
           /\ current_occupancy[room] = SeedOcc[room] - 1

\* The assign on slot p has found its room full: at the handler's check of the
\* room row it read, or at the check of the INSERT trigger.
FoundRoomFull(p) ==
    /\ req[p].kind = "assign"
    /\ \/ req[p].pc = "insertWrite" /\ req[p].v_occ >= capacity[req[p].room_id]
       \/ req[p].pc = "done" /\ req[p].result \in {"RoomFull", "room_full_exception"}

\* An assign by an active student that no other request overlapped, for a room
\* that was full when it arrived, has returned the handler's room-full error
\* and left the database as it was.
RoomFullOnArrival ==
    \A p \in Procs :
        ( /\ AssignDone(p)
          /\ req[p].alone
          /\ req[p].student_id \in Students
          /\ req[p].room_id \in Rooms
          /\ req[p].pre.active[req[p].student_id]
          /\ is_available[req[p].room_id]
          /\ req[p].pre.occ[req[p].room_id] = capacity[req[p].room_id] )
        => req[p].result = "RoomFull" /\ Snapshot = req[p].pre

\* C10: an assign for a room whose current_occupancy equals its capacity ends
\* in a room-full error, has created no allocation row, has not changed the
\* room's current_occupancy, and has left the student's existing allocation
\* active: whether the room is found full by the handler or by the trigger of
\* the INSERT.
C10_RoomFullChangesNothing ==
    /\ RoomFullOnArrival
    /\ \A p \in Procs :
          FoundRoomFull(p)
              => /\ req[p].inserted = 0
                 /\ req[p].deactivated = {}

\* The assign on slot p names a student and a room of a hostel that does not
\* admit the student's gender.
GenderMismatched(p) ==
    /\ req[p].kind = "assign"
    /\ req[p].student_id \in Students
    /\ req[p].room_id \in Rooms
    /\ gender_allowed[req[p].room_id] # "other"
    /\ gender[req[p].student_id] # gender_allowed[req[p].room_id]

\* The errors an assign returns from its checks, before its first write.
CheckErrors == {"StudentNotActive", "RoomNotAvailable", "RoomFull", "GenderMismatch"}

\* C11: an assign whose room's hostel has gender_allowed different from 'other'
\* and from the student's gender (a student of gender 'other' in a male-only
\* hostel included) never gets past the checks: it writes no allocation and no
\* occupancy and ends in a rejection, which is the gender error when the
\* student is active and the room available and not full; and the gender check
\* never rejects when gender_allowed is 'other'.
C11_GenderMismatchRejected ==
    \A p \in Procs :
        /\ GenderMismatched(p)
            => /\ req[p].pc \in {"studentCheck", "roomCheck", "done"}
               /\ req[p].inserted = 0
               /\ req[p].deactivated = {}
               /\ req[p].pc = "done" => req[p].result \in CheckErrors
               /\ (req[p].alone /\ req[p].pc = "done")
                    => /\ Snapshot = req[p].pre
                       /\ ( /\ req[p].pre.active[req[p].student_id]
                            /\ is_available[req[p].room_id]
                            /\ req[p].pre.occ[req[p].room_id] < capacity[req[p].room_id] )
                          => req[p].result = "GenderMismatch"
        /\ (AssignDone(p) /\ req[p].result = "GenderMismatch")
            => gender_allowed[req[p].room_id] # "other"

\* C11 witness: a student of gender 'other' has been refused a room of a
\* male-only hostel with the gender error.
C11_Witness ==
    \E p \in Procs :
        /\ AssignDone(p)
        /\ req[p].result = "GenderMismatch"
        /\ gender[req[p].student_id] = "other"
        /\ gender_allowed[req[p].room_id] = "male"

\* The assign on slot p names a student that does not exist or was inactive
\* when the request arrived, or a room that does not exist or is unavailable.
NotFoundOnArrival(p) ==
    /\ req[p].kind = "assign"
    /\ \/ req[p].student_id \notin Students
       \/ ~req[p].pre.active[req[p].student_id]
       \/ req[p].room_id \notin Rooms
       \/ ~is_available[req[p].room_id]

\* C12: an assign for a student that does not exist or is inactive, or for a
\* room that does not exist or is unavailable, never gets past the two lookups:
\* it ends in the student or room error, having created and deactivated no
\* allocation and changed no occupancy.
C12_NotFoundRejectedBeforeWrite ==
    \A p \in Procs :
        NotFoundOnArrival(p)
            => /\ req[p].pc \in {"studentCheck", "roomCheck", "done"}
               /\ req[p].inserted = 0
               /\ req[p].deactivated = {}
               /\ req[p].pc = "done"
                    => req[p].result \in {"StudentNotActive", "RoomNotAvailable"}
               /\ (req[p].alone /\ req[p].pc = "done") => Snapshot = req[p].pre

\* C12 witness: an assign for a student deactivated by an earlier request has
\* been refused with the student error.
C12_Witness ==
    \E p \in Procs :
        /\ AssignDone(p)
        /\ req[p].student_id \in Students
        /\ ~req[p].pre.active[req[p].student_id]
        /\ req[p].result = "StudentNotActive"

\* The step in which the student deactivation on slot p updates the student's
\* allocation rows.
StudentAllocationsStep(p) ==
    /\ req[p].kind = "studentDelete"
    /\ req[p].pc = "studentAllocations"
    /\ req'[p].pc = "done"

\* C13: the student deactivation's update of the allocations leaves the
\* student with no active allocation and, in that same step, lowers the
\* current_occupancy of the room of the allocation it deactivates by exactly 1
\* (not below 0), every other room and row staying as it was; the request's
\* other statement changes no allocation and no occupancy.
C13_DeactivationReleasesSlot ==
    [][ \A p \in Procs :
          /\ StudentAllocationsStep(p)
              => LET held == ActiveOf(allocations, req[p].student_id)
                 IN  /\ ActiveOf(allocations', req[p].student_id) = {}
                     /\ \A i \in DOMAIN allocations \ held :
                            allocations'[i] = allocations[i]
                     /\ DOMAIN allocations' = DOMAIN allocations
                     /\ \A r \in Rooms :
                            current_occupancy'[r] =
                                IF \E i \in held : allocations[i].room_id = r
                                THEN GREATEST(0, current_occupancy[r] - 1)
                                ELSE current_occupancy[r]
          /\ (req[p].kind = "studentDelete" /\ req[p].pc = "studentUpdate"
                /\ req'[p].pc # "studentUpdate")
              => UNCHANGED <<allocations, current_occupancy>>
      ]_vars

\* C13 witness: a deactivation of a student who held an active allocation has
\* completed, the student holding none and the room one occupant fewer.
C13_Witness ==
    \E p \in Procs :
        /\ req[p].kind = "studentDelete"
        /\ req[p].pc = "done"
        /\ req[p].alone
        /\ \E i \in ActiveOf(req[p].pre.allocs, req[p].student_id) :
              /\ ~allocations[i].is_active
              /\ req[p].pre.occ[allocations[i].room_id] >= 1
              /\ current_occupancy[allocations[i].room_id]
                    = req[p].pre.occ[allocations[i].room_id] - 1

\* ------------------------------------------------------------------ complaint properties

\* The complaint request on slot p has returned.
CDone(p, k) == creq[p].kind = k /\ creq[p].pc = "done"

\* The rows of the log table that belong to complaint id.
LogsOf(logs, id) == SelectSeq(logs, LAMBDA row : row.complaint_id = id)

\* The request on slot p has left both complaint tables as it found them.
CUnchanged(p) ==
    /\ complaints = creq[p].pre.complaints
    /\ complaint_logs = creq[p].pre.logs

\* C14: when POST /api/complaints has returned success, the complaint it
\* created is a new row with status 'open', and the log holds exactly one row
\* for it, with old_status NULL and new_status 'open'; nothing else changed.
C14_CreatedOpenAndLogged ==
    \A p \in Procs :
        (CDone(p, "create") /\ creq[p].result = "Created")
            => LET id == creq[p].id
               IN  /\ id = Len(creq[p].pre.complaints) + 1
                   /\ Len(complaints) = id
                   /\ SubSeq(complaints, 1, id - 1) = creq[p].pre.complaints
                   /\ complaints[id].status = "open"
                   /\ complaint_logs =
                        Append(creq[p].pre.logs,
                               [complaint_id |-> id, old_status |-> NullStatus,
                                new_status |-> "open"])
                   /\ Len(LogsOf(complaint_logs, id)) = 1

\* C14 witness: a complaint has been created with an explicit priority.
C14_Witness ==
    \E p \in Procs :
        /\ CDone(p, "create")
        /\ creq[p].result = "Created"
        /\ creq[p].body.priority = Given(1)
        /\ complaints[creq[p].id].priority = 1

\* The errors POST /api/complaints returns from its validation.
ValidationErrors == {"MissingFields", "InvalidCategory", "InvalidPriority"}

\* C15: a creation request whose category is not one of the 8 values, or whose
\* priority is given and is an integer outside 1..5 (0 and negative values
\* included), returns a validation error and leaves the complaints and the log
\* as they were.
C15_InvalidCreateRejected ==
    \A p \in Procs :
        ( /\ CDone(p, "create")
          /\ \/ creq[p].body.category \notin validCategories
             \/ /\ creq[p].body.priority.given
                /\ creq[p].body.priority.value \notin 1..5 )
        => /\ creq[p].result \in ValidationErrors
           /\ CUnchanged(p)

\* C16: a step never changes an assigned_at, resolved_at or closed_at that is
\* already set, whatever statuses the complaint has passed through.
C16_TimestampsSetOnce ==
    [][ \A id \in DOMAIN complaints :
          /\ complaints[id].assigned_at # NULL
                => complaints'[id].assigned_at = complaints[id].assigned_at
          /\ complaints[id].resolved_at # NULL
                => complaints'[id].resolved_at = complaints[id].resolved_at
          /\ complaints[id].closed_at # NULL
                => complaints'[id].closed_at = complaints[id].closed_at
      ]_vars

\* C17: every step that changes the status of a complaint appends exactly one
\* row to the log, for that complaint, with old_status the status before the
\* step and new_status the status after it: also when the two slots update one
\* complaint at the same time, each on the row it read earlier.
C17_StatusChangeLogged ==
    [][ \A id \in DOMAIN complaints :
          complaints'[id].status # complaints[id].status
              => complaint_logs' =
                    Append(complaint_logs,
                           [complaint_id |-> id,
                            old_status |-> complaints[id].status,
                            new_status |-> complaints'[id].status])
      ]_vars

\* C17 witness: two updates of one complaint that arrived before either had
\* written have both changed its status, and the log has a row for each.
C17_Witness ==
    /\ CDone(1, "update") /\ CDone(2, "update")
    /\ creq[1].result = "Updated" /\ creq[2].result = "Updated"
    /\ creq[1].id = creq[2].id
    /\ creq[1].pre = creq[2].pre
    /\ Len(complaint_logs) = Len(creq[1].pre.logs) + 2
    /\ complaint_logs[Len(complaint_logs)].old_status
            = complaint_logs[Len(complaint_logs) - 1].new_status

\* The step in which the update on slot p runs its UPDATE statement.
UpdateWriteStep(p) == creq[p].pc = "updateWrite" /\ creq'[p].pc = "done"

\* C18: an UPDATE that leaves the status of its complaint as it was (a
\* priority, notes or staff change, or a request for the status the complaint
\* already has) appends no row to the log and leaves assigned_at, resolved_at
\* and closed_at as they were; and a step of a request that runs no UPDATE
\* changes neither table.
C18_NoStatusChangeNoLog ==
    [][ \A p \in Procs :
          /\ ( /\ UpdateWriteStep(p)
               /\ complaints'[creq[p].id].status = complaints[creq[p].id].status )
             => /\ complaint_logs' = complaint_logs
                /\ complaints'[creq[p].id].assigned_at = complaints[creq[p].id].assigned_at
                /\ complaints'[creq[p].id].resolved_at = complaints[creq[p].id].resolved_at
                /\ complaints'[creq[p].id].closed_at = complaints[creq[p].id].closed_at
          /\ ( /\ creq'[p] # creq[p]
               /\ creq'[p].kind = "update"
               /\ ~UpdateWriteStep(p) )
             => UNCHANGED <<complaints, complaint_logs>>
      ]_vars

\* C18 witness: an update that changed the priority of a complaint that is not
\* open has returned, the status and the log being what they were.
C18_Witness ==
    \E p \in Procs :
        /\ CDone(p, "update")
        /\ creq[p].result = "Updated"
        /\ creq[p].pre.complaints[creq[p].id].status # "open"
        /\ complaints[creq[p].id].status = creq[p].pre.complaints[creq[p].id].status
        /\ complaints[creq[p].id].priority # creq[p].pre.complaints[creq[p].id].priority
        /\ complaint_logs = creq[p].pre.logs

\* C19: an update that asks for status 'assigned' and supplies no staff id, for
\* a complaint that has no assigned staff, is rejected and leaves the complaint
\* and the log as they were (no other request running).
C19_AssignedNeedsStaff ==
    \A p \in Procs :
        ( /\ CDone(p, "update")
          /\ creq[p].id \in DOMAIN creq[p].pre.complaints
          /\ creq[p].body.status = "assigned"
          /\ ~creq[p].body.assigned_staff_id.given
          /\ creq[p].pre.complaints[creq[p].id].assigned_staff_id = NULL )
        => /\ creq[p].result # "Updated"
           /\ CUnchanged(p)

\* The update on slot p supplies a non-null staff id.
SuppliesStaff(p) ==
    /\ creq[p].kind = "update"
    /\ creq[p].body.assigned_staff_id.given
    /\ creq[p].body.assigned_staff_id.value # NULL

C21_LogAppendOnly ==
    [][ /\ Len(complaint_logs') >= Len(complaint_logs)
        /\ SubSeq(complaint_logs', 1, Len(complaint_logs)) = complaint_logs
        /\ \A id \in DOMAIN complaints :
              Len(LogsOf(complaint_logs', id)) >= Len(LogsOf(complaint_logs, id))
      ]_vars

\* C21 witness: a complaint has been created and then updated, and the log
\* holds the seed's row, the creation row and the row of the update.
C21_Witness ==
    /\ Len(complaints) = 2
    /\ Len(complaint_logs) >= 3
    /\ \E p \in Procs : CDone(p, "update") /\ creq[p].result = "Updated"
                          /\ complaint_logs # creq[p].pre.logs

\* ------------------------------------------------------------------ concurrent checkouts

\* Both slots have finished a checkout of allocation a, which was active when
\* each of them arrived, the second arriving before the first had written.
CheckedOutTwice(p, q, a) ==
    /\ p # q
    /\ req[p].kind = "checkout" /\ req[p].pc = "done"
    /\ req[q].kind = "checkout" /\ req[q].pc = "done"
    /\ req[p].allocation_id = a /\ req[q].allocation_id = a
    /\ req[p].pre = req[q].pre
    /\ a \in DOMAIN req[p].pre.allocs
    /\ req[p].pre.allocs[a].is_active

\* C23: of two checkouts of one active allocation that run at the same time,
\* one reports success and the other 'already inactive', and the room's
\* current_occupancy is one less than before, every other room unchanged.
C23_ConcurrentCheckout ==
    \A p, q \in Procs :
        \A a \in DOMAIN allocations :
            CheckedOutTwice(p, q, a)
                => LET pre == req[p].pre
                       r == pre.allocs[a].room_id
                   IN  /\ {req[p].result, req[q].result} = {"Ok", "AlreadyInactive"}
                       /\ current_occupancy =
                            [pre.occ EXCEPT ![r] = GREATEST(0, @ - 1)]

\* ------------------------------------------------------------------ occupancy floor

\* The step in which the request on slot p runs a statement that lowers
\* occupancy: the deactivation of allocation rows (trigger) or the handler's
\* own UPDATE rooms.
DecrementStep(p) ==
    /\ req[p].pc \in {"deactivate", "checkoutUpdate", "checkoutRoomUpdate",
                      "studentAllocations"}
    /\ req'[p].pc # req[p].pc

IsChain(rows, status) ==
    /\ Len(rows) >= 1
    /\ rows[1].old_status = NullStatus
    /\ \A i \in 2..Len(rows) : rows[i].old_status = rows[i - 1].new_status
    /\ rows[Len(rows)].new_status = status

\* C25: in every reachable state the log rows of every complaint form a chain
\* that ends in the complaint's current status, also while two updates of the
\* complaint overlap.
C25_LogChain ==
    \A id \in DOMAIN complaints :
        IsChain(LogsOf(complaint_logs, id), complaints[id].status)

\* C25 witness: two overlapping updates have both changed the status of one
\* complaint, so its chain has three rows, the second update written on a row
\* other than the one its handler had read.
C25_Witness ==
    /\ CDone(1, "update") /\ CDone(2, "update")
    /\ creq[1].id = creq[2].id
    /\ creq[1].pre = creq[2].pre
    /\ Len(LogsOf(complaint_logs, creq[1].id)) >= 3
    /\ complaints[creq[1].id].status # creq[1].pre.complaints[creq[1].id].status

\* ------------------------------------------------------------------ complaint row invariants

\* C26: in every reachable state, a complaint whose status is 'assigned' has
\* an assigned_staff_id that is not NULL.
C26_AssignedHasStaff ==
    \A id \in DOMAIN complaints :
        complaints[id].status = "assigned" => complaints[id].assigned_staff_id # NULL

\* C27: in every reachable state, a complaint with status 'assigned' has
\* assigned_at set, one with status 'resolved' has resolved_at set and one with
\* status 'closed' has closed_at set.
C27_StatusHasTimestamp ==
    \A id \in DOMAIN complaints :
        /\ complaints[id].status = "assigned" => complaints[id].assigned_at # NULL
        /\ complaints[id].status = "resolved" => complaints[id].resolved_at # NULL
        /\ complaints[id].status = "closed" => complaints[id].closed_at # NULL

\* C27 witness: a complaint created through the API has been taken straight
\* from 'open' to 'closed' by an update, and closed_at is set while
\* assigned_at and resolved_at are not.
C27_Witness ==
    \E p \in Procs :
        /\ CDone(p, "update") /\ creq[p].result = "Updated"
        /\ creq[p].id = 2
        /\ creq[p].pre.complaints[2].status = "open"
        /\ complaints[2].status = "closed"
        /\ complaints[2].closed_at # NULL
        /\ complaints[2].resolved_at = NULL

\* ------------------------------------------------------------------ deactivated students

\* C28: in every state in which no request is in progress, no student with
\* is_active = FALSE holds an allocation with is_active = TRUE.
C28_InactiveStudentHoldsNothing ==
    Quiescent =>
        \A s \in Students : ~student_active[s] => ActiveOf(allocations, s) = {}

\* ------------------------------------------------------------------ receipt numbers

\* C30: the receipt numbers the handler generated are pairwise distinct over
\* the payments table.
C30_GeneratedReceiptsDistinct ==
    \A i, j \in DOMAIN payments :
        (i # j /\ payments[i].generated /\ payments[j].generated)
            => payments[i].receipt_number # payments[j].receipt_number

\* ------------------------------------------------------------------ allocation update

\* The step in which the allocation update on slot p runs and returns.
AllocationUpdateStep(p) ==
    req[p].pc = "allocationUpdate" /\ req'[p].pc = "done"

\* C29: an allocation update, accepted or not, leaves every allocation's
\* is_active (and student and room), every room's current_occupancy and
\* every student's is_active as they were.
C29_AllocationUpdateFrame ==
    [][ \A p \in Procs :
          AllocationUpdateStep(p)
              => /\ allocations' = allocations
                 /\ current_occupancy' = current_occupancy
                 /\ student_active' = student_active
      ]_vars

\* C29 witness: an update of an active allocation in a full room has been
\* accepted.
C29_Witness ==
    \E p \in Procs :
        /\ req[p].kind = "allocationUpdate" /\ req[p].pc = "done"
        /\ req[p].result = "Updated"
        /\ allocations[req[p].allocation_id].is_active
        /\ current_occupancy[allocations[req[p].allocation_id].room_id]
                = capacity[allocations[req[p].allocation_id].room_id]

\* C22: every rate and percentage of the analytics responses is a number,
\* never the NaN or Infinity of a division by zero, and is 0 when its
\* denominator is zero: the occupancy rate when the total capacity is 0, the
\* category percentage and the resolution rate when there are no complaints,
\* complaints-per-room when the hostel has no rooms.
C22_ZeroDenominatorGivesZero ==
    analytics # <<>> =>
        LET r == analytics.response
        IN  /\ r.kind = "rooms" =>
                /\ r.data.overall_occupancy_rate.kind = "number"
                /\ r.data.total_capacity = 0 =>
                       r.data.overall_occupancy_rate = JsNumber(0)
                /\ \A i \in DOMAIN r.data.by_type :
                       /\ r.data.by_type[i].rate.kind = "number"
                       /\ r.data.by_type[i].capacity = 0 =>
                              r.data.by_type[i].rate = JsNumber(0)
            /\ r.kind = "categories" =>
                \A c \in DOMAIN r.data :
                    /\ r.data[c].percentage.kind = "number"
                    /\ analytics.complaints = <<>> =>
                           r.data[c].percentage = JsNumber(0)
            /\ r.kind = "resolution" =>
                /\ r.data.resolution_rate.kind = "number"
                /\ r.data.total_complaints = 0 =>
                       r.data.resolution_rate = JsNumber(0)
            /\ r.kind = "hostels" =>
                \A h \in DOMAIN r.data :
                    /\ r.data[h].complaints_per_room.kind = "number"
                    /\ InHostel(analytics.rooms, h) = <<>> =>
                           r.data[h].complaints_per_room = JsNumber(0)

\* The occupancy of a hostel without rooms has been asked for, in a database
\* that has rooms: the total capacity is 0 and the rate returned is 0.
C22_Witness ==
    /\ analytics # <<>>
    /\ analytics.rooms # <<>>
    /\ analytics.response.kind = "rooms"
    /\ analytics.response.data.total_capacity = 0
    /\ analytics.response.data.overall_occupancy_rate = JsNumber(0)

====
